---------------------------- MODULE Spec2Model ----------------------------
(***************************************************************************)
(* Real-time voice interview session of the Empathy Agent client:          *)
(* the InterviewSession component (playback scheduler, transcript          *)
(* assembler, session life cycle, teardown) together with the              *)
(* GeminiLiveService transport wrapper it drives.                          *)
(*                                                                         *)
(* Texts are sequences of one-character strings so that endsWith,          *)
(* startsWith, concatenation and the transcript rendering are computed     *)
(* character by character, as the code computes them.                      *)
(* Times are in units of 100 ms.                                           *)
(***************************************************************************)
EXTENDS Integers, Sequences, FiniteSets, TLC

VARIABLES
    status,          \* React state `status`
    statusRef,       \* statusRef.current (copied from status by an effect)
    isMuted,         \* React state `isMuted`
    capMuted,        \* the value of isMuted closed over by onaudioprocess
    logs,            \* React state `logs`
    logsRef,         \* logsRef.current
    events,          \* history: the (role, text) events in arrival order
    time,            \* time elapsed since the click on Start (drives Date.now and ctx.currentTime)
    audioCtx,        \* the output AudioContext object: "none" | "running" | "closed"
    audioCtxRef,     \* audioContextRef.current is non-null
    nextStartTime,   \* nextStartTimeRef.current (PlaybackClock)
    arrived,         \* history: number of audio fragments handed to onAudioData
    scheduled,       \* history: every source created, with start time and duration
    bufferSources,   \* bufferSourceRef.current: indices into scheduled
    audioStream,     \* the microphone MediaStream: "none" | "live" | "stopped"
    processor,       \* the ScriptProcessorNode: "none" | "connected" | "disconnected"
    liveService,     \* liveServiceRef.current is non-null
    sessionPromise,  \* GeminiLiveService.sessionPromise: "null" | "pending" | "resolved" | "rejected"
    session,         \* the remote live session: "none" | "open" | "closing" | "closed"
    pcStart,         \* position of handleStart / startVoiceSession
    pcTd,            \* position of each handleDisconnect invocation
    completed,       \* the strings handed to onComplete, in order
    sentChunks,      \* number of audio chunks passed to session.sendRealtimeInput
    mounted,         \* the component is mounted
    apiKey,          \* process.env.API_KEY is non-empty
    logsAtError,     \* history: the log as it was at each call of setStatus('error')
    tdLog,           \* history: the steps of handleDisconnect, in the order they ran
    chatService,     \* chatServiceRef.current is non-null (text mode)
    pendingSends,    \* text messages whose chat.sendMessageStream has not settled
    failedSends,     \* sends that failed and were reported by console.error
    inputData,       \* a block of Float32 samples, each in units of 1/SampleDen
    pcmInt16,        \* float32ToInt16(inputData), once computed
    rawBytes,        \* the bytes of an ArrayBuffer
    base64Data,      \* arrayBufferToBase64(rawBytes), once computed
    decodedBytes,    \* base64ToUint8Array(base64Data), once computed
    codecDone,       \* the conversions that have run
    passed,          \* history: sessionPromise at each call of sendAudioChunk
    reactions,       \* what waits for the pending sessionPromise, in the order attached
    received         \* the chunks the remote session got, in order (by number of call)

vars == << status, statusRef, isMuted, capMuted, logs, logsRef, events, time,
           audioCtx, audioCtxRef, arrived, nextStartTime, scheduled,
           bufferSources, audioStream, processor, liveService, sessionPromise,
           session, pcStart, pcTd, completed, sentChunks, mounted, apiKey, logsAtError, tdLog,
           chatService, pendingSends, failedSends,
           inputData, pcmInt16, rawBytes, base64Data, decodedBytes, codecDone,
           passed, reactions, received >>

sendVars == << chatService, pendingSends, failedSends >>
codecVars == << inputData, pcmInt16, rawBytes, base64Data, decodedBytes, codecDone >>
chunkVars == << passed, reactions, received >>
playVars == << arrived, nextStartTime, scheduled, bufferSources >>
logVars  == << logs, logsRef, events >>

-----------------------------------------------------------------------------
(* Bounds of the model *)

MaxTime == 1          \* physical time runs over 0..MaxTime in the session model
MaxLogEvents == 2     \* transcript events delivered by the Transport in the session model
MaxFragments == 1     \* audio fragments delivered by the Transport in the session model
MaxChunks == 1        \* capture callbacks that send a chunk
MaxSessionEvents == 4 \* ticks, transcript events, fragments and chunks of one session together
MaxSends == 2         \* sends attempted where sending is looked at on its own
MaxAsmEvents == 3     \* events fed to the transcript assembler on its own
MaxPlayTime == 8      \* device time runs over 0..MaxPlayTime in the scheduler on its own
MaxPlayFragments == 3 \* fragments fed to the scheduler on its own

-----------------------------------------------------------------------------
(* Texts *)

Hel      == << "H", "e", "l" >>
lo       == << "l", "o" >>
Hi       == << "H", "i" >>
HiSp     == << "H", "i", " " >>
there    == << "t", "h", "e", "r", "e" >>
SpYou    == << " ", "y", "o", "u" >>
okTab    == << "o", "k", "\t" >>
nlGo     == << "\n", "g", "o" >>
TxtA     == << "A" >>
TxtB     == << "B" >>

ApiKeyMissing == << "A", "P", "I", " ", "K", "e", "y", " ", "m", "i", "s", "s", "i", "n", "g" >>
ConnectingMsg == << "C", "o", "n", "n", "e", "c", "t", "i", "n", "g", ".", ".", "." >>
ConnectedMsg  == << "C", "o", "n", "n", "e", "c", "t", "e", "d", "." >>
ErrorMsg      == << "E", "r", "r", "o", "r", ":" >>

Roles == { "user", "model", "system" }

\* mutant: any whitespace character at the end counts
EndsWithWhitespace(t) == Len(t) > 0 /\ t[Len(t)] \in { " ", "\t", "\n" }

\* String.prototype.endsWith(' ') and startsWith(' ')
EndsWithSpace(t) == Len(t) > 0 /\ t[Len(t)] = " "
StartsWithSpace(t) == Len(t) > 0 /\ t[1] = " "

\* role.toUpperCase()
ToUpperCase(role) ==
    CASE role = "user"   -> << "U", "S", "E", "R" >>
      [] role = "model"  -> << "M", "O", "D", "E", "L" >>
      [] role = "system" -> << "S", "Y", "S", "T", "E", "M" >>


-----------------------------------------------------------------------------
(* Transcript assembler: handleStreamingLog *)

\* mutant: the role of the last message is not compared
CanMergeAnyRole(prev, role) == Len(prev) > 0 /\ role # "system"

\* mutant: system events are merged like the others
CanMergeSystemToo(prev, role) == Len(prev) > 0 /\ prev[Len(prev)].role = role

\* mutant: the merge branch is never taken
CanMergeNever(prev, role) == FALSE

\* the condition of the merge branch
CanMerge(prev, role) ==
    Len(prev) > 0 /\ prev[Len(prev)].role = role /\ role # "system"

\* mutants: a space is never inserted; a space is always inserted
needsSpaceNever(lastText, text) == FALSE
needsSpaceAlways(lastText, text) == TRUE

needsSpace(lastText, text) ==
    Len(lastText) > 0 /\ ~EndsWithSpace(lastText) /\ ~StartsWithSpace(text)

\* mutant: the merged message keeps only the new fragment
updatedTextNewOnly(lastText, text) == text

updatedText(lastText, text) ==
    lastText \o (IF needsSpace(lastText, text) THEN << " " >> ELSE << >>) \o text

\* mutant: a new message is put in front of the others
newLogsPrepend(prev, role, text, now) ==
    IF CanMerge(prev, role)
    THEN [ prev EXCEPT ![Len(prev)].text = updatedText(prev[Len(prev)].text, text) ]
    ELSE << [ role |-> role, text |-> text, timestamp |-> now ] >> \o prev

\* the value the updater passed to setLogs returns; now is Date.now()
newLogs(prev, role, text, now) ==
    IF CanMerge(prev, role)
    THEN [ prev EXCEPT ![Len(prev)].text = updatedText(prev[Len(prev)].text, text) ]
    ELSE Append(prev, [ role |-> role, text |-> text, timestamp |-> now ])

\* mutant: the merge branch does not refresh logsRef.current; the ref then keeps
\* the list of the last append
newLogsRefStaleOnMerge(prev, role, text, now) ==
    IF CanMerge(prev, role) THEN logsRef
    ELSE Append(prev, [ role |-> role, text |-> text, timestamp |-> now ])

\* the value the updater stores in logsRef.current
newLogsRef(prev, role, text, now) == newLogs(prev, role, text, now)

\* handleStreamingLog(role, text). The updater given to setLogs is applied
\* when handleStreamingLog is called.
handleStreamingLog(role, text) ==
    /\ logs' = newLogs(logs, role, text, time)
    /\ logsRef' = newLogsRef(logs, role, text, time)
    /\ events' = Append(events, [ role |-> role, text |-> text ])

-----------------------------------------------------------------------------
(* Final transcript: handleFinish *)

RECURSIVE FilterNonSystem(_)
FilterNonSystem(ls) ==
    IF ls = << >> THEN << >>
    ELSE (IF Head(ls).role # "system" THEN << Head(ls) >> ELSE << >>)
         \o FilterNonSystem(Tail(ls))

\* `${l.role.toUpperCase()}: ${l.text}`
RenderLine(l) == ToUpperCase(l.role) \o << ":", " " >> \o l.text

RECURSIVE JoinLines(_)
JoinLines(ls) ==
    IF ls = << >> THEN << >>
    ELSE IF Len(ls) = 1 THEN RenderLine(ls[1])
    ELSE RenderLine(ls[1]) \o << "\n" >> \o JoinLines(Tail(ls))

fullTranscript(ref) == JoinLines(FilterNonSystem(ref))

-----------------------------------------------------------------------------
(* Playback scheduler: the onAudioData callback *)

\* ctx.currentTime of the output AudioContext, which is created at the click
\* on Start
currentTime == time

\* mutant: the fragment is started at the device's current time
startTimeIgnoresClock(cur, next) == cur

\* Math.max(currentTime, nextStartTimeRef.current)
startTime(cur, next) == IF cur >= next THEN cur ELSE next

\* mutant: the clock is advanced from the device's current time
nextAfterCurrentTime(start, duration) == currentTime + duration

\* nextStartTimeRef.current = startTime + buffer.duration
nextAfter(start, duration) == start + duration

\* mutant: the callback does not look at the output device
DeviceGoneNever == FALSE

\* the guard at the top of the callback
DeviceGone == ~audioCtxRef \/ audioCtx = "closed"

onAudioData(duration) ==
    /\ arrived' = arrived + 1
    /\ IF DeviceGone
       THEN UNCHANGED << nextStartTime, scheduled, bufferSources >>
       ELSE LET st == startTime(currentTime, nextStartTime) IN
            /\ scheduled' = Append(scheduled,
                   [ start |-> st, duration |-> duration,
                     stopped |-> FALSE, ended |-> FALSE ])
            /\ bufferSources' = bufferSources \cup { Len(scheduled) + 1 }
            /\ nextStartTime' = nextAfter(st, duration)

\* source.onended: the source finished playing, or was stopped
onended(h) ==
    /\ h \in 1..Len(scheduled)
    /\ ~scheduled[h].ended
    /\ \/ scheduled[h].stopped
       \/ audioCtx = "running" /\ currentTime >= scheduled[h].start + scheduled[h].duration
    /\ scheduled' = [ scheduled EXCEPT ![h].ended = TRUE ]
    /\ bufferSources' = bufferSources \ { h }
    /\ UNCHANGED << arrived, nextStartTime >>

-----------------------------------------------------------------------------
(* Inputs of the session model *)

FinishCalls == { "finish1", "finish2" }     \* clicks on "End Interview"
TdCallers == FinishCalls \cup { "unmount" } \* invocations of handleDisconnect
SessionTexts == { Hi }                      \* transcription texts of the Transport
SessionDurations == { 1 }                   \* buffer.duration of audio fragments
NoText == << >>                             \* a message without that transcription
NoAudio == 0                                \* a message without inline audio

-----------------------------------------------------------------------------
(* Session: initial state *)

\* the calls of sendAudioChunk are not followed one by one
ChunksUnused == passed = << >> /\ reactions = << >> /\ received = << >>

\* no block of samples or bytes is being converted
CodecUnused ==
    /\ inputData = << >> /\ pcmInt16 = << >>
    /\ rawBytes = << >> /\ base64Data = << >> /\ decodedBytes = << >>
    /\ codecDone = {}

Init ==
    /\ status = "idle" /\ statusRef = "idle"
    /\ isMuted = FALSE /\ capMuted = FALSE
    /\ logs = << >> /\ logsRef = << >> /\ events = << >>
    /\ time = 0
    /\ audioCtx = "none" /\ audioCtxRef = FALSE
    /\ arrived = 0 /\ nextStartTime = 0 /\ scheduled = << >> /\ bufferSources = {}
    /\ audioStream = "none" /\ processor = "none"
    /\ liveService = FALSE /\ sessionPromise = "null" /\ session = "none"
    /\ pcStart = "idle"
    /\ pcTd = [ c \in TdCallers |-> "idle" ]
    /\ completed = << >>
    /\ sentChunks = 0
    /\ mounted = TRUE
    /\ apiKey \in BOOLEAN
    /\ logsAtError = << >>
    /\ tdLog = << >>
    /\ chatService = FALSE /\ pendingSends = 0 /\ failedSends = 0
    /\ CodecUnused
    /\ ChunksUnused

\* setStatus(s): a state update of an unmounted component is dropped
setStatus(s) == IF mounted THEN s ELSE status

\* mutant: the first of the updates queued by an event handler is rendered
batchedFirst(updates) == updates[1]

\* the setStatus calls of one event handler are committed together: the
\* component renders the last of them only
batched(updates) == updates[Len(updates)]

\* the log as the call of setStatus('error') finds it
snapshotAtError(lg) == Append(logsAtError, lg)

-----------------------------------------------------------------------------
(* Teardown: handleDisconnect and GeminiLiveService.disconnect *)

\* invocations that resume on the same event run in the order of their calls
CallerOrder == << "finish1", "finish2", "unmount" >>
SeqOf(W) == SelectSeq(CallerOrder, LAMBDA c : c \in W)

tdEntry(c, step, result) == [ c |-> c, step |-> step, result |-> result ]

\* what each guarded step does: "done" when its guard holds and it acts
processorStep(proc) == IF proc = "connected" THEN "done" ELSE "skipped"

\* mutant: the stream is not forgotten after its tracks were stopped
tracksStepAgain(stream) == IF stream # "none" THEN "done" ELSE "skipped"

tracksStep(stream) == IF stream = "live" THEN "done" ELSE "skipped"
deviceStep == IF audioCtxRef /\ audioCtx # "closed" THEN "done" ELSE "skipped"
sourcesStep(srcs) == IF srcs # {} THEN "done" ELSE "skipped"

\* mutant: the tracks are stopped before the processor is disconnected
syncStepsTracksFirst(c, proc, stream) ==
    << tdEntry(c, "tracks", tracksStep(stream)),
       tdEntry(c, "processor", processorStep(proc)),
       tdEntry(c, "device", deviceStep) >>

\* steps 2 to 4 of one invocation, up to the call of audioContext.close()
syncSteps(c, proc, stream) ==
    << tdEntry(c, "processor", processorStep(proc)),
       tdEntry(c, "tracks", tracksStep(stream)),
       tdEntry(c, "device", deviceStep) >>

\* steps 2 to 4 of the invocations cs, one invocation after the other: the
\* first finds the processor proc and the stream, the others find them gone
RECURSIVE syncStepsOf(_, _, _)
syncStepsOf(cs, proc, stream) ==
    IF cs = << >> THEN << >>
    ELSE syncSteps(Head(cs), proc, stream)
         \o syncStepsOf(Tail(cs),
                        IF proc = "connected" THEN "disconnected" ELSE proc,
                        IF stream = "live" THEN "stopped" ELSE stream)

\* step 5 of the invocations cs: the first finds the handles srcs
RECURSIVE sourcesStepsOf(_, _)
sourcesStepsOf(cs, srcs) ==
    IF cs = << >> THEN << >>
    ELSE << tdEntry(Head(cs), "sources", sourcesStep(srcs)) >>
         \o sourcesStepsOf(Tail(cs), {})

\* step 1 of the invocations cs, all with the same result
sessionStepsOf(cs, result) == [ i \in 1..Len(cs) |-> tdEntry(cs[i], "session", result) ]

\* mutant: the set of handles is not cleared
afterClearKept(srcs) == srcs

\* bufferSourceRef.current.clear()
afterClear(srcs) == {}

StopAll ==
    [ h \in 1..Len(scheduled) |->
        IF h \in bufferSources THEN [ scheduled[h] EXCEPT !.stopped = TRUE ]
        ELSE scheduled[h] ]

\* mutant: teardown also rewinds the playback clock
TdFinalResetsClock(W, st, ref, log) ==
    /\ scheduled' = StopAll
    /\ bufferSources' = {}
    /\ arrived' = arrived
    /\ nextStartTime' = 0
    /\ tdLog' = log \o sourcesStepsOf(SeqOf(W), bufferSources)
    /\ pcTd' = [ c \in TdCallers |-> IF c \in W THEN "done" ELSE pcTd[c] ]
    /\ status' = IF W \cap FinishCalls # {} /\ mounted THEN "finished" ELSE st
    /\ completed' = completed \o [ i \in 1..Cardinality(W \cap FinishCalls) |->
                                     fullTranscript(ref) ]

\* Step 5 of handleDisconnect for the invocations W, followed by the rest of
\* handleFinish for those of them that handleFinish awaits: st is the status
\* and ref the logsRef.current they find, log the steps run before.
TdFinal(W, st, ref, log) ==
    /\ scheduled' = StopAll
    /\ bufferSources' = afterClear(bufferSources)
    /\ UNCHANGED << arrived, nextStartTime >>
    /\ tdLog' = log \o sourcesStepsOf(SeqOf(W), bufferSources)
    /\ pcTd' = [ c \in TdCallers |-> IF c \in W THEN "done" ELSE pcTd[c] ]
    /\ LET n == Cardinality(W \cap FinishCalls) IN
       /\ status' = IF n > 0 /\ mounted THEN "finished" ELSE st
       /\ completed' = completed \o [ i \in 1..n |-> fullTranscript(ref) ]

\* Steps 2 to 4 of handleDisconnect (they run without suspension), then either
\* the suspension on audioContext.close() or step 5; proc is the processor
\* node the invocation finds, log the steps run before.
TdFrom2(W, st, ref, proc, log) ==
    /\ processor' = IF proc = "connected" THEN "disconnected" ELSE proc
    /\ audioStream' = IF audioStream = "live" THEN "stopped" ELSE audioStream
    /\ IF audioCtxRef /\ audioCtx # "closed"
       THEN /\ pcTd' = [ c \in TdCallers |-> IF c \in W THEN "awaitClose" ELSE pcTd[c] ]
            /\ status' = st
            /\ tdLog' = log \o syncStepsOf(SeqOf(W), proc, audioStream)
            /\ UNCHANGED << playVars, completed, audioCtxRef >>
       ELSE /\ TdFinal(W, st, ref, log \o syncStepsOf(SeqOf(W), proc, audioStream))
            /\ UNCHANGED audioCtxRef

\* handleDisconnect() called by invocation c
handleDisconnect(c) ==
    /\ pcTd[c] = "idle"
    /\ IF liveService /\ sessionPromise = "pending"
       THEN \* disconnect() suspends on the pending sessionPromise
            /\ pcTd' = [ pcTd EXCEPT ![c] = "awaitSession" ]
            /\ UNCHANGED << session, sessionPromise, processor, audioStream,
                            status, playVars, completed, audioCtxRef, tdLog >>
       ELSE IF liveService /\ sessionPromise = "rejected"
       THEN \* awaiting the rejected promise throws out of handleDisconnect
            /\ pcTd' = [ pcTd EXCEPT ![c] = "failed" ]
            /\ tdLog' = Append(tdLog, tdEntry(c, "session", "threw"))
            /\ UNCHANGED << session, sessionPromise, processor, audioStream,
                            status, playVars, completed, audioCtxRef >>
       ELSE IF liveService /\ sessionPromise = "resolved"
       THEN /\ session' = IF session = "open" THEN "closing" ELSE session
            /\ sessionPromise' = "null"
            /\ TdFrom2({ c }, status, logsRef, processor,
                       Append(tdLog, tdEntry(c, "session", "done")))
       ELSE /\ UNCHANGED << session, sessionPromise >>
            /\ TdFrom2({ c }, status, logsRef, processor,
                       Append(tdLog, tdEntry(c, "session", "skipped")))

\* click on "End Interview & Generate Report"
handleFinish(c) ==
    /\ c \in FinishCalls
    /\ mounted
    /\ handleDisconnect(c)
    /\ UNCHANGED << statusRef, isMuted, capMuted, logVars, time, audioCtx,
                    liveService, pcStart, sentChunks, mounted, apiKey, logsAtError >>
    /\ UNCHANGED << sendVars, codecVars, chunkVars >>

\* The host leaves the interview screen after onComplete; the cleanup of the
\* mount effect calls handleDisconnect.
Unmount ==
    /\ mounted
    /\ Len(completed) > 0
    /\ mounted' = FALSE
    /\ handleDisconnect("unmount")
    /\ UNCHANGED << statusRef, isMuted, capMuted, logVars, time, audioCtx,
                    liveService, pcStart, sentChunks, apiKey, logsAtError >>
    /\ UNCHANGED << sendVars, codecVars, chunkVars >>

\* audioContext.close() settles: the context is closed and every invocation
\* suspended on it resumes
AudioContextClosed ==
    /\ audioCtx = "running"
    /\ \E c \in TdCallers : pcTd[c] = "awaitClose"
    /\ audioCtx' = "closed"
    /\ audioCtxRef' = FALSE
    /\ TdFinal({ c \in TdCallers : pcTd[c] = "awaitClose" }, status, logsRef, tdLog)
    /\ UNCHANGED << statusRef, isMuted, capMuted, logVars, time, audioStream,
                    processor, liveService, sessionPromise, session, pcStart,
                    sentChunks, mounted, apiKey, logsAtError >>
    /\ UNCHANGED << sendVars, codecVars, chunkVars >>

-----------------------------------------------------------------------------
(* Start: handleStart and startVoiceSession (config.mode is VOICE) *)

\* click on "Start Interview" (the button is rendered while status is idle)
\* mutant: the start overlay stays on the screen
StartOfferedAlways == TRUE

\* the overlay with the "Start Interview" button is rendered
StartOffered == status = "idle"

handleStart ==
    /\ mounted /\ StartOffered
    /\ IF ~apiKey
       THEN \* setStatus('connecting'), then the log entry and setStatus('error')
            /\ handleStreamingLog("system", ApiKeyMissing)
            /\ status' = batched(<< "connecting", "error" >>)
            /\ logsAtError' = snapshotAtError(logs')
            /\ pcStart' = "done"
            /\ UNCHANGED << liveService, audioCtx, audioCtxRef, capMuted >>
       ELSE /\ status' = batched(<< "connecting" >>)
            /\ liveService' = TRUE
            /\ audioCtx' = "running" /\ audioCtxRef' = TRUE
            /\ handleStreamingLog("system", ConnectingMsg)
            /\ capMuted' = isMuted
            /\ pcStart' = "awaitMedia"
            /\ UNCHANGED logsAtError
    /\ UNCHANGED << statusRef, isMuted, time, playVars, audioStream, processor,
                    sessionPromise, session, pcTd, completed, sentChunks,
                    mounted, apiKey, tdLog >>
    /\ UNCHANGED << sendVars, codecVars, chunkVars >>

\* getUserMedia resolves: the stream is stored and connect() is called
MediaResolved ==
    /\ pcStart = "awaitMedia"
    /\ audioStream' = "live"
    /\ sessionPromise' = "pending"
    /\ pcStart' = "awaitConnect"
    /\ UNCHANGED << status, statusRef, isMuted, capMuted, logVars, time, audioCtx,
                    audioCtxRef, playVars, processor, liveService, session,
                    pcTd, completed, sentChunks, mounted, apiKey, logsAtError, tdLog >>
    /\ UNCHANGED << sendVars, codecVars, chunkVars >>

\* getUserMedia rejects: the catch block
MediaRejected ==
    /\ pcStart = "awaitMedia"
    /\ status' = setStatus("error")
    /\ logsAtError' = snapshotAtError(logs)
    /\ handleStreamingLog("system", ErrorMsg)
    /\ pcStart' = "done"
    /\ UNCHANGED << statusRef, isMuted, capMuted, time, audioCtx, audioCtxRef,
                    playVars, audioStream, processor, liveService,
                    sessionPromise, session, pcTd, completed, sentChunks,
                    mounted, apiKey, tdLog >>
    /\ UNCHANGED << sendVars, codecVars, chunkVars >>

\* The live session opens and sessionPromise resolves. The reactions run in
\* the order they were registered: disconnect() of every invocation suspended
\* on the promise (session.close(), sessionPromise = null), then the rest of
\* startVoiceSession, then the rest of those handleDisconnect invocations.
ConnectResolved ==
    /\ pcStart = "awaitConnect"
    /\ pcStart' = "done"
    /\ handleStreamingLog("system", ConnectedMsg)
    /\ LET W == { c \in TdCallers : pcTd[c] = "awaitSession" } IN
       IF W = {}
       THEN /\ session' = "open"
            /\ sessionPromise' = "resolved"
            /\ status' = setStatus("connected")
            /\ processor' = "connected"
            /\ UNCHANGED << audioStream, pcTd, playVars, completed, audioCtxRef,
                            tdLog >>
       ELSE /\ session' = "closing"
            /\ sessionPromise' = "null"
            /\ TdFrom2(W, setStatus("connected"), logsRef', "connected",
                       tdLog \o sessionStepsOf(SeqOf(W), "done"))
    /\ UNCHANGED << statusRef, isMuted, capMuted, time, audioCtx,
                    liveService, sentChunks, mounted, apiKey, logsAtError >>
    /\ UNCHANGED << sendVars, codecVars, chunkVars >>

\* The live session fails to open: sessionPromise rejects, startVoiceSession
\* runs its catch block and every suspended disconnect() throws.
ConnectRejected ==
    /\ pcStart = "awaitConnect"
    /\ pcStart' = "done"
    /\ sessionPromise' = "rejected"
    /\ status' = setStatus("error")
    /\ logsAtError' = snapshotAtError(logs)
    /\ handleStreamingLog("system", ErrorMsg)
    /\ pcTd' = [ c \in TdCallers |->
                   IF pcTd[c] = "awaitSession" THEN "failed" ELSE pcTd[c] ]
    /\ tdLog' = tdLog \o sessionStepsOf(
                     SeqOf({ c \in TdCallers : pcTd[c] = "awaitSession" }), "threw")
    /\ UNCHANGED << statusRef, isMuted, capMuted, time, audioCtx, audioCtxRef,
                    playVars, audioStream, processor, liveService, session,
                    completed, sentChunks, mounted, apiKey >>
    /\ UNCHANGED << sendVars, codecVars, chunkVars >>

-----------------------------------------------------------------------------
(* Transport callbacks: GeminiLiveService.connect *)

TransportEvents == Len(SelectSeq(events, LAMBDA e : e.role # "system"))

\* onmessage: inline audio first, then the output transcription (the model),
\* then the input transcription (the user); an empty text is no text
onmessage(audio, outText, inText) ==
    /\ session \in { "open", "closing" }
    /\ audio # NoAudio \/ outText # NoText \/ inText # NoText
    /\ IF audio # NoAudio THEN onAudioData(audio) ELSE UNCHANGED playVars
    /\ LET l1 == IF outText # NoText THEN newLogs(logs, "model", outText, time) ELSE logs
           r1 == IF outText # NoText THEN newLogsRef(logs, "model", outText, time) ELSE logsRef
           e1 == IF outText # NoText
                 THEN Append(events, [ role |-> "model", text |-> outText ]) ELSE events
       IN /\ logs' = IF inText # NoText THEN newLogs(l1, "user", inText, time) ELSE l1
          /\ logsRef' = IF inText # NoText THEN newLogsRef(l1, "user", inText, time) ELSE r1
          /\ events' = IF inText # NoText
                       THEN Append(e1, [ role |-> "user", text |-> inText ]) ELSE e1
    /\ UNCHANGED << status, statusRef, isMuted, capMuted, time, audioCtx, audioCtxRef, audioStream, processor, liveService, sessionPromise,
                    session, pcStart, pcTd, completed, sentChunks, mounted, apiKey, logsAtError, tdLog >>
    /\ UNCHANGED << sendVars, codecVars, chunkVars >>

\* mutant: the onClose callback leaves the status alone
onCloseIgnored == status

\* the onClose callback that startVoiceSession gives to connect()
onClose == setStatus("finished")

\* onclose: the socket has closed
onclose ==
    /\ session \in { "open", "closing", "failed" }
    /\ session' = "closed"
    /\ status' = onClose
    /\ UNCHANGED << statusRef, isMuted, capMuted, logVars, time, audioCtx,
                    audioCtxRef, playVars, audioStream, processor,
                    liveService, sessionPromise, pcStart, pcTd, completed,
                    sentChunks, mounted, apiKey, logsAtError, tdLog >>
    /\ UNCHANGED << sendVars, codecVars, chunkVars >>

\* onerror: the socket failed; its close event follows
onerror ==
    /\ session = "open"
    /\ session' = "failed"
    /\ status' = onClose
    /\ UNCHANGED << statusRef, isMuted, capMuted, logVars, time, audioCtx,
                    audioCtxRef, playVars, audioStream, processor,
                    liveService, sessionPromise, pcStart, pcTd, completed,
                    sentChunks, mounted, apiKey, logsAtError, tdLog >>
    /\ UNCHANGED << sendVars, codecVars, chunkVars >>

-----------------------------------------------------------------------------
(* Capture, mute, effects, time *)

\* mutant: a failed send ends the session
afterSendFailureError == setStatus("error")

\* the status after the catch of a failed send, which only reports it
afterSendFailure == status

\* processor.onaudioprocess, then GeminiLiveService.sendAudioChunk; ok tells
\* whether session.sendRealtimeInput succeeds
onaudioprocess(ok) ==
    /\ processor = "connected"
    /\ LET sends == /\ ~(capMuted \/ statusRef # "connected")
                    /\ liveService /\ sessionPromise # "null"
       IN /\ sentChunks' = IF sends /\ ok THEN sentChunks + 1 ELSE sentChunks
          /\ failedSends' = IF sends /\ ~ok THEN failedSends + 1 ELSE failedSends
          /\ status' = IF sends /\ ~ok THEN afterSendFailure ELSE status
    /\ UNCHANGED << statusRef, isMuted, capMuted, logVars, time, audioCtx,
                    audioCtxRef, playVars, audioStream, processor,
                    liveService, sessionPromise, session, pcStart, pcTd,
                    completed, mounted, apiKey, logsAtError, tdLog,
                    chatService, pendingSends >>
    /\ UNCHANGED << codecVars, chunkVars >>

\* click on the mute button
toggleMute ==
    /\ mounted
    /\ isMuted' = ~isMuted
    /\ UNCHANGED << status, statusRef, capMuted, logVars, time, audioCtx,
                    audioCtxRef, playVars, audioStream, processor,
                    liveService, sessionPromise, session, pcStart, pcTd,
                    completed, sentChunks, mounted, apiKey, logsAtError, tdLog >>
    /\ UNCHANGED << sendVars, codecVars, chunkVars >>

\* useEffect(() => { statusRef.current = status }, [status])
statusEffect ==
    /\ mounted
    /\ statusRef # status
    /\ statusRef' = status
    /\ UNCHANGED << status, isMuted, capMuted, logVars, time, audioCtx,
                    audioCtxRef, playVars, audioStream, processor,
                    liveService, sessionPromise, session, pcStart, pcTd,
                    completed, sentChunks, mounted, apiKey, logsAtError, tdLog >>
    /\ UNCHANGED << sendVars, codecVars, chunkVars >>

\* a source ends
SourceEnded(h) ==
    /\ onended(h)
    /\ UNCHANGED << status, statusRef, isMuted, capMuted, logVars, time, audioCtx,
                    audioCtxRef, audioStream, processor, liveService,
                    sessionPromise, session, pcStart, pcTd, completed,
                    sentChunks, mounted, apiKey, logsAtError, tdLog >>
    /\ UNCHANGED << sendVars, codecVars, chunkVars >>

\* time passes
Advance(limit) ==
    /\ time < limit
    /\ time' = time + 1
    /\ UNCHANGED << status, statusRef, isMuted, capMuted, logVars, audioCtx,
                    audioCtxRef, playVars, audioStream, processor,
                    liveService, sessionPromise, session, pcStart, pcTd,
                    completed, sentChunks, mounted, apiKey, logsAtError, tdLog >>
    /\ UNCHANGED << sendVars, codecVars, chunkVars >>

-----------------------------------------------------------------------------
(* Session: next-state relation *)

\* what the session has received, sent and waited so far
SessionEvents == TransportEvents + arrived + sentChunks + failedSends + time

Deliver ==
    \E audio \in { NoAudio } \cup SessionDurations,
       outText \in { NoText } \cup SessionTexts,
       inText \in { NoText } \cup SessionTexts :
        /\ TransportEvents + (IF outText # NoText THEN 1 ELSE 0)
                           + (IF inText # NoText THEN 1 ELSE 0) <= MaxLogEvents
        /\ arrived + (IF audio # NoAudio THEN 1 ELSE 0) <= MaxFragments
        /\ SessionEvents + (IF outText # NoText THEN 1 ELSE 0)
                         + (IF inText # NoText THEN 1 ELSE 0)
                         + (IF audio # NoAudio THEN 1 ELSE 0) <= MaxSessionEvents
        /\ onmessage(audio, outText, inText)

Capture ==
    /\ sentChunks + failedSends < MaxChunks
    /\ SessionEvents < MaxSessionEvents
    /\ \E ok \in BOOLEAN : onaudioprocess(ok)

\* time is counted from the click on Start
Tick == pcStart # "idle" /\ SessionEvents < MaxSessionEvents /\ Advance(MaxTime)

\* every step of the session but a click on "End Interview"
SessionStep ==
    \/ handleStart
    \/ MediaResolved
    \/ MediaRejected
    \/ ConnectResolved
    \/ ConnectRejected
    \/ Deliver
    \/ onclose
    \/ onerror
    \/ Capture
    \/ toggleMute
    \/ statusEffect
    \/ \E h \in 1..Len(scheduled) : SourceEnded(h)
    \/ Unmount
    \/ AudioContextClosed
    \/ Tick

Next == SessionStep \/ handleFinish("finish1")

Spec == Init /\ [][Next]_vars

-----------------------------------------------------------------------------
(* The session ended twice in a row: the first click on "End Interview" comes
   when no continuation of start is pending, so that nothing is acquired
   while or after the teardown runs, and the second click comes after the
   first teardown has ended. The cleanup of the unmount is one more run. *)

StartSettled == pcStart \in { "idle", "done" }

FirstEnd == StartSettled /\ handleFinish("finish1")

SecondEnd == pcTd["finish1"] \in { "done", "failed" } /\ handleFinish("finish2")

NextTwice == SessionStep \/ FirstEnd \/ SecondEnd

SpecTwice == Init /\ [][NextTwice]_vars

\* "End Interview" is clicked again while the teardown of the first click is
\* suspended (the button stays on the screen)
OverlappingEnd ==
    /\ pcTd["finish1"] \in { "awaitSession", "awaitClose" }
    /\ handleFinish("finish2")

NextOverlap == SessionStep \/ handleFinish("finish1") \/ OverlappingEnd

SpecOverlap == Init /\ [][NextOverlap]_vars

-----------------------------------------------------------------------------
(* The session with the progress its platform guarantees: a promise that is
   awaited settles, a closing or failed socket delivers its close event, an
   effect runs after its render, and the host unmounts the component once it
   has the transcript. Clicks, messages of the Transport, capture callbacks
   and spontaneous closures are not forced. *)

MediaSettles == MediaResolved \/ MediaRejected
ConnectSettles == ConnectResolved \/ ConnectRejected
SocketCloses == session \in { "closing", "failed" } /\ onclose

SpecFair ==
    /\ Init /\ [][Next]_vars
    /\ WF_vars(MediaSettles)
    /\ WF_vars(ConnectSettles)
    /\ WF_vars(AudioContextClosed)
    /\ WF_vars(SocketCloses)
    /\ WF_vars(statusEffect)
    /\ WF_vars(Unmount)

-----------------------------------------------------------------------------
(* Text mode: startTextSession and sendTextMessage *)

ChatTexts == { Hi }           \* texts of the chat model
InputTexts == { Hi }          \* what the user types (inputText.trim() is not empty)

\* click on "Start Interview" when config.mode is TEXT and the key is present
handleStartText ==
    /\ mounted /\ StartOffered
    /\ apiKey
    /\ status' = batched(<< "connecting" >>)
    /\ chatService' = TRUE
    /\ pcStart' = "awaitChat"
    /\ UNCHANGED << statusRef, isMuted, capMuted, logVars, time, audioCtx,
                    audioCtxRef, playVars, audioStream, processor, liveService,
                    sessionPromise, session, pcTd, completed, sentChunks,
                    mounted, apiKey, logsAtError, tdLog, pendingSends,
                    failedSends >>
    /\ UNCHANGED << codecVars, chunkVars >>

\* chatServiceRef.current.start() resolves: the first message of the model, if
\* it has a text, then setStatus('connected')
ChatStartResolved ==
    /\ pcStart = "awaitChat"
    /\ \E text \in ChatTexts \cup { NoText } :
         IF text # NoText THEN handleStreamingLog("model", text)
         ELSE UNCHANGED logVars
    /\ status' = setStatus("connected")
    /\ pcStart' = "done"
    /\ UNCHANGED << statusRef, isMuted, capMuted, time, audioCtx, audioCtxRef,
                    playVars, audioStream, processor, liveService,
                    sessionPromise, session, pcTd, completed, sentChunks,
                    mounted, apiKey, logsAtError, tdLog, sendVars, codecVars, chunkVars >>

\* chatServiceRef.current.start() rejects: the catch block
ChatStartRejected ==
    /\ pcStart = "awaitChat"
    /\ status' = setStatus("error")
    /\ logsAtError' = snapshotAtError(logs)
    /\ handleStreamingLog("system", ErrorMsg)
    /\ pcStart' = "done"
    /\ UNCHANGED << statusRef, isMuted, capMuted, time, audioCtx, audioCtxRef,
                    playVars, audioStream, processor, liveService,
                    sessionPromise, session, pcTd, completed, sentChunks,
                    mounted, apiKey, tdLog, sendVars, codecVars, chunkVars >>

\* the form is submitted (it is rendered while the status is connected)
sendTextMessage(text) ==
    /\ mounted /\ status = "connected"
    /\ chatService
    /\ handleStreamingLog("user", text)
    /\ pendingSends' = pendingSends + 1
    /\ UNCHANGED << status, statusRef, isMuted, capMuted, time, audioCtx,
                    audioCtxRef, playVars, audioStream, processor, liveService,
                    sessionPromise, session, pcStart, pcTd, completed,
                    sentChunks, mounted, apiKey, logsAtError, tdLog,
                    chatService, failedSends >>
    /\ UNCHANGED << codecVars, chunkVars >>

\* chatServiceRef.current.sendMessage resolves: the chunks of the response,
\* joined, are logged (also when there were none)
SendResolved(fullResponse) ==
    /\ pendingSends > 0
    /\ pendingSends' = pendingSends - 1
    /\ handleStreamingLog("model", fullResponse)
    /\ UNCHANGED << status, statusRef, isMuted, capMuted, time, audioCtx,
                    audioCtxRef, playVars, audioStream, processor, liveService,
                    sessionPromise, session, pcStart, pcTd, completed,
                    sentChunks, mounted, apiKey, logsAtError, tdLog,
                    chatService, failedSends >>
    /\ UNCHANGED << codecVars, chunkVars >>

\* chatServiceRef.current.sendMessage rejects: the catch block reports it
SendRejected ==
    /\ pendingSends > 0
    /\ pendingSends' = pendingSends - 1
    /\ failedSends' = failedSends + 1
    /\ status' = afterSendFailure
    /\ UNCHANGED << statusRef, isMuted, capMuted, logVars, time, audioCtx,
                    audioCtxRef, playVars, audioStream, processor, liveService,
                    sessionPromise, session, pcStart, pcTd, completed,
                    sentChunks, mounted, apiKey, logsAtError, tdLog,
                    chatService >>
    /\ UNCHANGED << codecVars, chunkVars >>

-----------------------------------------------------------------------------
(* Sending on its own: a voice or a text session that is started and then
   only sends, each send succeeding or failing *)

TextSends == Len(SelectSeq(events, LAMBDA e : e.role = "user"))

SendText ==
    \E text \in InputTexts : TextSends < MaxSends /\ sendTextMessage(text)

SendSettles ==
    \/ \E fullResponse \in ChatTexts \cup { NoText } : SendResolved(fullResponse)
    \/ SendRejected

SendChunk ==
    /\ sentChunks + failedSends < MaxSends
    /\ \E ok \in BOOLEAN : onaudioprocess(ok)

NextSend ==
    \/ handleStart
    \/ MediaResolved
    \/ ConnectResolved
    \/ handleStartText
    \/ ChatStartResolved
    \/ ChatStartRejected
    \/ SendText
    \/ SendSettles
    \/ SendChunk
    \/ statusEffect
    \/ toggleMute
    \/ onclose
    \/ Tick

SpecSend == Init /\ [][NextSend]_vars

-----------------------------------------------------------------------------
(* The audio codec: audioUtils.ts *)

SampleDen == 4        \* a sample k stands for the Float32 value k / SampleDen
MaxSamples == 1       \* samples of a block
MaxBytes == 4         \* bytes of a buffer

\* sample values from -2.0 to 2.0, each exact as a Float32
Samples == (0 - 2 * SampleDen)..(2 * SampleDen)

ByteSamples == { 0, 1, 77, 128, 254, 255 }

SeqsUpTo(S, n) == UNION { [ 1..m -> S ] : m \in 0..n }

Min(a, b) == IF a < b THEN a ELSE b
Max(a, b) == IF a > b THEN a ELSE b

\* mutant: the sample is scaled as it comes
clipNone(k) == k

\* Math.max(-1, Math.min(1, x))
clip(k) == Max(0 - SampleDen, Min(SampleDen, k))

\* the integer part of num / SampleDen, rounded towards zero: the first step of
\* the conversion of a Number that is stored in an Int16Array
Truncate(num) ==
    IF num >= 0 THEN num \div SampleDen ELSE 0 - ((0 - num) \div SampleDen)

\* the second step of that conversion: modulo 2^16 into -32768..32767
ToInt16(n) ==
    LET m == n % 65536 IN IF m >= 32768 THEN m - 65536 ELSE m

\* s < 0 ? s * 0x8000 : s * 0x7fff, as a multiple of 1 / SampleDen
scale(s) == IF s < 0 THEN s * 32768 ELSE s * 32767

\* float32ToInt16(float32Array)
float32ToInt16(float32Array) ==
    [ i \in 1..Len(float32Array) |->
        ToInt16(Truncate(scale(clip(float32Array[i])))) ]

\* the alphabet of btoa and atob
Alphabet ==
    << "A", "B", "C", "D", "E", "F", "G", "H", "I", "J", "K", "L", "M",
       "N", "O", "P", "Q", "R", "S", "T", "U", "V", "W", "X", "Y", "Z",
       "a", "b", "c", "d", "e", "f", "g", "h", "i", "j", "k", "l", "m",
       "n", "o", "p", "q", "r", "s", "t", "u", "v", "w", "x", "y", "z",
       "0", "1", "2", "3", "4", "5", "6", "7", "8", "9", "+", "/" >>

Pad == "="

\* btoa(binary), binary given as its character codes (all below 256)
RECURSIVE btoa(_)
btoa(binary) ==
    IF binary = << >> THEN << >>
    ELSE LET n  == Len(binary)
             b1 == binary[1]
             b2 == IF n >= 2 THEN binary[2] ELSE 0
             b3 == IF n >= 3 THEN binary[3] ELSE 0
             c1 == b1 \div 4
             c2 == (b1 % 4) * 16 + b2 \div 16
             c3 == (b2 % 16) * 4 + b3 \div 64
             c4 == b3 % 64
         IN << Alphabet[c1 + 1], Alphabet[c2 + 1] >>
            \o << IF n >= 2 THEN Alphabet[c3 + 1] ELSE Pad >>
            \o << IF n >= 3 THEN Alphabet[c4 + 1] ELSE Pad >>
            \o ( IF n > 3 THEN btoa(SubSeq(binary, 4, n)) ELSE << >> )

\* atob removes one or two padding characters from data whose length is a
\* multiple of four
StripPad(data) ==
    LET n == Len(data)
    IN IF n = 0 \/ n % 4 # 0 \/ data[n] # Pad THEN data
       ELSE IF data[n - 1] = Pad THEN SubSeq(data, 1, n - 2)
       ELSE SubSeq(data, 1, n - 1)

\* atob throws InvalidCharacterError
atobThrows(data) ==
    LET d == StripPad(data)
    IN \/ Len(d) % 4 = 1
       \/ \E i \in 1..Len(d) : \A j \in 1..64 : Alphabet[j] # d[i]

SextetOf(ch) == ( CHOOSE j \in 1..64 : Alphabet[j] = ch ) - 1

\* the bytes of a run of alphabet characters; the bits left over at the end
\* are dropped
RECURSIVE decodeSextets(_)
decodeSextets(d) ==
    IF Len(d) < 2 THEN << >>
    ELSE LET n  == Len(d)
             v1 == SextetOf(d[1])
             v2 == SextetOf(d[2])
             v3 == IF n >= 3 THEN SextetOf(d[3]) ELSE 0
             v4 == IF n >= 4 THEN SextetOf(d[4]) ELSE 0
         IN << v1 * 4 + v2 \div 16 >>
            \o ( IF n >= 3 THEN << (v2 % 16) * 16 + v3 \div 4 >> ELSE << >> )
            \o ( IF n >= 4 THEN << (v3 % 4) * 64 + v4 >> ELSE << >> )
            \o ( IF n > 4 THEN decodeSextets(SubSeq(d, 5, n)) ELSE << >> )

\* atob(data) when it does not throw, as the character codes of its result
atob(data) == decodeSextets(StripPad(data))

\* mutant: only seven bits of a byte are kept
fromCharCode7Bit(code) == code % 128

\* String.fromCharCode(code): the code unit is the number modulo 2^16
fromCharCode(code) == code % 65536

\* a store into a Uint8Array
ToUint8(n) == n % 256

\* arrayBufferToBase64(buffer)
arrayBufferToBase64(buffer) ==
    btoa([ i \in 1..Len(buffer) |-> fromCharCode(buffer[i]) ])

\* base64ToUint8Array(base64), when atob does not throw
base64ToUint8Array(base64) ==
    LET binaryString == atob(base64)
    IN [ i \in 1..Len(binaryString) |-> ToUint8(binaryString[i]) ]

\* a block of samples is converted, or a buffer is encoded and decoded again
InitCodec ==
    /\ status = "idle" /\ statusRef = "idle"
    /\ isMuted = FALSE /\ capMuted = FALSE
    /\ logs = << >> /\ logsRef = << >> /\ events = << >>
    /\ time = 0
    /\ audioCtx = "none" /\ audioCtxRef = FALSE
    /\ arrived = 0 /\ nextStartTime = 0 /\ scheduled = << >> /\ bufferSources = {}
    /\ audioStream = "none" /\ processor = "none"
    /\ liveService = FALSE /\ sessionPromise = "null" /\ session = "none"
    /\ pcStart = "idle"
    /\ pcTd = [ c \in TdCallers |-> "idle" ]
    /\ completed = << >>
    /\ sentChunks = 0
    /\ mounted = TRUE
    /\ apiKey = TRUE
    /\ logsAtError = << >>
    /\ tdLog = << >>
    /\ chatService = FALSE /\ pendingSends = 0 /\ failedSends = 0
    /\ \/ inputData \in SeqsUpTo(Samples, MaxSamples) /\ rawBytes = << >>
       \/ inputData = << >> /\ rawBytes \in SeqsUpTo(ByteSamples, MaxBytes)
    /\ pcmInt16 = << >> /\ base64Data = << >> /\ decodedBytes = << >>
    /\ codecDone = {}
    /\ ChunksUnused

sessionVars ==
    << status, statusRef, isMuted, capMuted, logVars, time, audioCtx,
       audioCtxRef, playVars, audioStream, processor, liveService,
       sessionPromise, session, pcStart, pcTd, completed, sentChunks, mounted,
       apiKey, logsAtError, tdLog, sendVars >>

ToPcm ==
    /\ "pcm" \notin codecDone
    /\ pcmInt16' = float32ToInt16(inputData)
    /\ codecDone' = codecDone \cup { "pcm" }
    /\ UNCHANGED << sessionVars, chunkVars, inputData, rawBytes, base64Data, decodedBytes >>

Encode ==
    /\ "encode" \notin codecDone
    /\ base64Data' = arrayBufferToBase64(rawBytes)
    /\ codecDone' = codecDone \cup { "encode" }
    /\ UNCHANGED << sessionVars, chunkVars, inputData, pcmInt16, rawBytes, decodedBytes >>

Decode ==
    /\ "encode" \in codecDone
    /\ codecDone \cap { "decode", "decodeThrew" } = {}
    /\ IF atobThrows(base64Data)
       THEN /\ codecDone' = codecDone \cup { "decodeThrew" }
            /\ UNCHANGED decodedBytes
       ELSE /\ decodedBytes' = base64ToUint8Array(base64Data)
            /\ codecDone' = codecDone \cup { "decode" }
    /\ UNCHANGED << sessionVars, chunkVars, inputData, pcmInt16, rawBytes, base64Data >>

NextCodec == ToPcm \/ Encode \/ Decode

SpecCodec == InitCodec /\ [][NextCodec]_vars

-----------------------------------------------------------------------------
(* GeminiLiveService on its own: connect, sendAudioChunk and disconnect called
   in any order on one service object *)

MaxChunkCalls == 4    \* calls of sendAudioChunk
MaxDisconnects == 1   \* calls of disconnect that wait for the pending promise

InitChunks ==
    /\ status = "idle" /\ statusRef = "idle"
    /\ isMuted = FALSE /\ capMuted = FALSE
    /\ logs = << >> /\ logsRef = << >> /\ events = << >>
    /\ time = 0
    /\ audioCtx = "none" /\ audioCtxRef = FALSE
    /\ arrived = 0 /\ nextStartTime = 0 /\ scheduled = << >> /\ bufferSources = {}
    /\ audioStream = "none" /\ processor = "none"
    /\ liveService = TRUE /\ sessionPromise = "null" /\ session = "none"
    /\ pcStart = "idle"
    /\ pcTd = [ c \in TdCallers |-> "idle" ]
    /\ completed = << >>
    /\ sentChunks = 0
    /\ mounted = TRUE
    /\ apiKey = TRUE
    /\ logsAtError = << >>
    /\ tdLog = << >>
    /\ chatService = FALSE /\ pendingSends = 0 /\ failedSends = 0
    /\ CodecUnused
    /\ ChunksUnused

\* what a call on the service leaves alone
aroundService ==
    << status, statusRef, isMuted, capMuted, logVars, time, audioCtx,
       audioCtxRef, playVars, audioStream, processor, liveService, pcStart,
       pcTd, completed, sentChunks, mounted, apiKey, logsAtError, tdLog,
       chatService, pendingSends, codecVars >>

chunkReaction(id, ok) == [ kind |-> "chunk", id |-> id, ok |-> ok ]
disconnectReaction == [ kind |-> "disconnect", id |-> 0, ok |-> TRUE ]

\* mutant: a reaction is run before those attached earlier
attachFirst(rs, r) == << r >> \o rs

\* promise.then(...): the reactions of one promise run in the order attached
attach(rs, r) == Append(rs, r)

Waiting(kind) == SelectSeq(reactions, LAMBDA r : r.kind = kind)

\* the reactions attached before the first disconnect that waits
RECURSIVE BeforeClose(_)
BeforeClose(rs) ==
    IF rs = << >> \/ Head(rs).kind = "disconnect" THEN << >>
    ELSE << Head(rs) >> \o BeforeClose(Tail(rs))

IdsOf(rs) == [ i \in 1..Len(rs) |-> rs[i].id ]

\* GeminiLiveService.connect
connect ==
    /\ liveService /\ sessionPromise = "null" /\ session = "none"
    /\ sessionPromise' = "pending"
    /\ UNCHANGED << aroundService, session, failedSends, chunkVars >>

\* ai.live.connect resolves: the chunks attached before a waiting disconnect go
\* to the open session, the disconnect closes it and clears the promise, and
\* what a closing socket is given afterwards is discarded
connectResolves ==
    /\ sessionPromise = "pending"
    /\ LET open == BeforeClose(reactions)
           good == SelectSeq(open, LAMBDA r : r.ok)
       IN /\ received' = received \o IdsOf(good)
          /\ failedSends' = failedSends + ( Len(open) - Len(good) )
    /\ IF Waiting("disconnect") = << >>
       THEN session' = "open" /\ sessionPromise' = "resolved"
       ELSE session' = "closing" /\ sessionPromise' = "null"
    /\ reactions' = << >>
    /\ UNCHANGED << aroundService, passed >>

\* ai.live.connect rejects: every chunk waiting is reported by its catch, and
\* every waiting disconnect throws
connectRejects ==
    /\ sessionPromise = "pending"
    /\ sessionPromise' = "rejected"
    /\ failedSends' = failedSends + Len(Waiting("chunk"))
    /\ reactions' = << >>
    /\ UNCHANGED << aroundService, session, passed, received >>

\* GeminiLiveService.sendAudioChunk; ok tells whether sendRealtimeInput returns
sendAudioChunk(ok) ==
    /\ liveService
    /\ passed' = Append(passed, sessionPromise)
    /\ LET id == Len(passed) + 1 IN
       CASE sessionPromise = "null" ->
              UNCHANGED << reactions, received, failedSends >>
         [] sessionPromise = "pending" ->
              /\ reactions' = attach(reactions, chunkReaction(id, ok))
              /\ UNCHANGED << received, failedSends >>
         [] sessionPromise = "resolved" ->
              /\ received' = IF ok /\ session = "open"
                             THEN Append(received, id) ELSE received
              /\ failedSends' = IF ok THEN failedSends ELSE failedSends + 1
              /\ UNCHANGED reactions
         [] sessionPromise = "rejected" ->
              /\ failedSends' = failedSends + 1
              /\ UNCHANGED << reactions, received >>
    /\ UNCHANGED << aroundService, session, sessionPromise >>

\* GeminiLiveService.disconnect
disconnect ==
    /\ liveService
    /\ CASE sessionPromise = "pending" ->
              /\ Len(Waiting("disconnect")) < MaxDisconnects
              /\ reactions' = attach(reactions, disconnectReaction)
              /\ UNCHANGED << session, sessionPromise >>
         [] sessionPromise = "resolved" ->
              /\ session' = IF session = "open" THEN "closing" ELSE session
              /\ sessionPromise' = "null"
              /\ UNCHANGED reactions
         [] OTHER ->
              UNCHANGED << session, sessionPromise, reactions >>
    /\ UNCHANGED << aroundService, failedSends, passed, received >>

\* the socket closes, by itself or after close()
socketCloses ==
    /\ session \in { "open", "closing" }
    /\ session' = "closed"
    /\ UNCHANGED << aroundService, sessionPromise, failedSends, chunkVars >>

SendAnyChunk ==
    /\ Len(passed) < MaxChunkCalls
    /\ \E ok \in BOOLEAN : sendAudioChunk(ok)

NextChunks ==
    \/ connect
    \/ connectResolves
    \/ connectRejects
    \/ SendAnyChunk
    \/ disconnect
    \/ socketCloses

SpecChunks == InitChunks /\ [][NextChunks]_vars

-----------------------------------------------------------------------------
(* The transcript assembler on its own: any stream of (role, text) events *)

AsmTexts == { Hel, lo, Hi, HiSp, there, SpYou, okTab, nlGo }
AsmSystemTexts == { TxtA, TxtB }

AsmEvent ==
    \E role \in Roles :
      \E text \in (IF role = "system" THEN AsmSystemTexts ELSE AsmTexts) :
        /\ Len(events) < MaxAsmEvents
        /\ handleStreamingLog(role, text)
        /\ UNCHANGED << status, statusRef, isMuted, capMuted, time, audioCtx,
                        audioCtxRef, playVars, audioStream, processor, liveService,
                        sessionPromise, session, pcStart, pcTd, completed,
                        sentChunks, mounted, apiKey, logsAtError, tdLog >>
        /\ UNCHANGED << sendVars, codecVars, chunkVars >>

AsmTick == Advance(MaxTime)

NextLog == AsmEvent \/ AsmTick

SpecLog == Init /\ [][NextLog]_vars

-----------------------------------------------------------------------------
(* The playback scheduler on its own: a connected voice session that receives
   audio fragments only, and is then ended by the user *)

PlayDurations == { 3, 5, 7 }

InitPlay ==
    /\ status = "connected" /\ statusRef = "connected"
    /\ isMuted = FALSE /\ capMuted = FALSE
    /\ logs = << [ role |-> "system", text |-> ConnectingMsg, timestamp |-> 0 ],
                 [ role |-> "system", text |-> ConnectedMsg, timestamp |-> 0 ] >>
    /\ logsRef = logs
    /\ events = << [ role |-> "system", text |-> ConnectingMsg ],
                   [ role |-> "system", text |-> ConnectedMsg ] >>
    /\ time = 0
    /\ audioCtx = "running" /\ audioCtxRef = TRUE
    /\ arrived = 0 /\ nextStartTime = 0 /\ scheduled = << >> /\ bufferSources = {}
    /\ audioStream = "live" /\ processor = "connected"
    /\ liveService = TRUE /\ sessionPromise = "resolved" /\ session = "open"
    /\ pcStart = "done"
    /\ pcTd = [ c \in TdCallers |-> "idle" ]
    /\ completed = << >>
    /\ sentChunks = 0
    /\ mounted = TRUE
    /\ apiKey = TRUE
    /\ logsAtError = << >>
    /\ tdLog = << >>
    /\ chatService = FALSE /\ pendingSends = 0 /\ failedSends = 0
    /\ CodecUnused
    /\ ChunksUnused

PlayArrival ==
    \E d \in PlayDurations :
        /\ arrived < MaxPlayFragments
        /\ onmessage(d, NoText, NoText)

PlayTick == Advance(MaxPlayTime)

NextPlay ==
    \/ PlayArrival
    \/ PlayTick
    \/ \E h \in 1..Len(scheduled) : SourceEnded(h)
    \/ handleFinish("finish1")
    \/ AudioContextClosed

SpecPlay == InitPlay /\ [][NextPlay]_vars

-----------------------------------------------------------------------------
(* Claims about the playback scheduler *)

\* C1: playback never overlaps: each fragment is scheduled to start no earlier
\* than the start of the fragment that arrived before it plus that fragment's
\* duration, so fragments start in arrival order.
C1_NonOverlap ==
    \A i \in 1..(Len(scheduled) - 1) :
        /\ scheduled[i + 1].start >= scheduled[i].start + scheduled[i].duration
        /\ scheduled[i + 1].start >= scheduled[i].start

\* three fragments, the second after the device had gone idle, the third
\* back to back with the second
C1_Witness ==
    /\ Len(scheduled) = 3
    /\ scheduled[2].start > scheduled[1].start + scheduled[1].duration
    /\ scheduled[3].start = scheduled[2].start + scheduled[2].duration

\* C2: on each fragment arrival while the output device is open the fragment
\* is started at max(currentDeviceTime, PlaybackClock) and PlaybackClock
\* becomes that start time plus the fragment's duration; fragments of 500, 300
\* and 700 ms arriving with the device at time 0 start at 0, 500 and 800 ms and
\* leave PlaybackClock at 1500 ms.
C2_Example ==
    ( /\ time = 0
      /\ Len(scheduled) = 3
      /\ scheduled[1].duration = 5
      /\ scheduled[2].duration = 3
      /\ scheduled[3].duration = 7 )
    => ( /\ scheduled[1].start = 0
         /\ scheduled[2].start = 5
         /\ scheduled[3].start = 8
         /\ nextStartTime = 15 )

C2_Step ==
    ( arrived' = arrived + 1 /\ audioCtxRef /\ audioCtx # "closed" )
    => ( /\ Len(scheduled') = Len(scheduled) + 1
         /\ LET f == scheduled'[Len(scheduled')] IN
            /\ f.start = IF time > nextStartTime THEN time ELSE nextStartTime
            /\ nextStartTime' = f.start + f.duration )

C2_Schedule == [](C2_Example) /\ [][C2_Step]_vars

C2_Witness ==
    /\ time = 0
    /\ Len(scheduled) = 3
    /\ scheduled[1].duration = 5
    /\ scheduled[2].duration = 3
    /\ scheduled[3].duration = 7
    /\ nextStartTime = 15

\* C3: PlaybackClock never decreases, and it changes only in a step in which
\* the scheduler schedules an arriving fragment; start, mute, transcript
\* events, capture callbacks, finish and teardown leave it unchanged.
C3_Step ==
    /\ nextStartTime' >= nextStartTime
    /\ nextStartTime' # nextStartTime
         => ( arrived' = arrived + 1 /\ Len(scheduled') = Len(scheduled) + 1 )
    /\ ( \/ status' # status \/ isMuted' # isMuted \/ sentChunks' # sentChunks
         \/ pcStart' # pcStart \/ pcTd' # pcTd \/ completed' # completed
         \/ audioCtx' # audioCtx \/ session' # session
         \/ ( logs' # logs /\ arrived' = arrived ) )
         => nextStartTime' = nextStartTime

-----------------------------------------------------------------------------
(* Claims about the transcript assembler *)

Whitespace == { " ", "\t", "\n" }

\* the messages without their timestamps
RoleText(ls) == [ i \in 1..Len(ls) |-> [ role |-> ls[i].role, text |-> ls[i].text ] ]

\* the event of the step, when the step delivers exactly one event
LastEvent == events'[Len(events')]
OneEvent == Len(events') = Len(events) + 1
MergeCase ==
    /\ Len(logs) > 0
    /\ logs[Len(logs)].role = LastEvent.role
    /\ LastEvent.role # "system"

\* C4: an event whose role is that of the last message, and is not system,
\* leaves the length of the log unchanged and only extends the text of the
\* last message; every other event appends exactly one message (role, text,
\* timestamp of the event) and changes no existing message.
C4_Step ==
    OneEvent =>
        LET n == Len(logs) IN
        IF MergeCase
        THEN /\ Len(logs') = n
             /\ \A i \in 1..(n - 1) : logs'[i] = logs[i]
             /\ logs'[n].role = logs[n].role
             /\ logs'[n].timestamp = logs[n].timestamp
             /\ Len(logs'[n].text) > Len(logs[n].text)
             /\ SubSeq(logs'[n].text, 1, Len(logs[n].text)) = logs[n].text
        ELSE logs' = Append(logs, [ role |-> LastEvent.role, text |-> LastEvent.text,
                                    timestamp |-> time ])

C4_MergeRule == [][C4_Step]_vars

\* a merge, then an append at a later time
C4_Witness ==
    /\ Len(events) = 3
    /\ Len(logs) = 2
    /\ logs[2].timestamp > logs[1].timestamp
    /\ logs[1].text # events[1].text

SubWordEvents ==
    << [ role |-> "user", text |-> Hel ], [ role |-> "user", text |-> lo ],
       [ role |-> "model", text |-> Hi ] >>

\* C5 as stated: (user,"Hel"), (user,"lo"), (model,"Hi") give exactly
\* [{user,"Hello"},{model,"Hi"}], and a merge whose join has no whitespace on
\* either side inserts no space.
C5_OriginalExample ==
    events = SubWordEvents
    => RoleText(logs) = << [ role |-> "user", text |-> << "H", "e", "l", "l", "o" >> ],
                           [ role |-> "model", text |-> << "H", "i" >> ] >>

C5_OriginalStep ==
    ( /\ OneEvent /\ MergeCase
      /\ logs[Len(logs)].text[Len(logs[Len(logs)].text)] \notin Whitespace
      /\ LastEvent.text[1] \notin Whitespace )
    => logs'[Len(logs)].text = logs[Len(logs)].text \o LastEvent.text

C5_Original == [](C5_OriginalExample) /\ [][C5_OriginalStep]_vars

\* C5 amended: the three events give exactly [{user,"Hel lo"},{model,"Hi"}],
\* and a merge whose join has no space character on either side inserts
\* exactly one space between the two texts.
C5_Example ==
    events = SubWordEvents
    => RoleText(logs) = << [ role |-> "user", text |-> << "H", "e", "l", " ", "l", "o" >> ],
                           [ role |-> "model", text |-> << "H", "i" >> ] >>

C5_Step ==
    ( /\ OneEvent /\ MergeCase
      /\ logs[Len(logs)].text[Len(logs[Len(logs)].text)] # " "
      /\ LastEvent.text[1] # " " )
    => logs'[Len(logs)].text = logs[Len(logs)].text \o << " " >> \o LastEvent.text

C5_SubWordMerge == [](C5_Example) /\ [][C5_Step]_vars

C5_Witness == events = SubWordEvents /\ Len(logs) = 2

\* C6 as stated: on a merge one space is inserted if and only if the last
\* text does not end with a whitespace character (space, tab, newline) and the
\* fragment does not start with one; otherwise nothing is inserted.
C6_OriginalStep ==
    ( OneEvent /\ MergeCase )
    => LET last == logs[Len(logs)].text
           frag == LastEvent.text
           sep == IF last[Len(last)] \notin Whitespace /\ frag[1] \notin Whitespace
                  THEN << " " >> ELSE << >>
       IN logs'[Len(logs)].text = last \o sep \o frag

C6_Original == [][C6_OriginalStep]_vars

\* C6 amended: on a merge one space is inserted if and only if the last text
\* is not empty, does not end with the space character and the fragment does
\* not start with the space character (a tab or a newline at the join does not
\* count); otherwise nothing is inserted.
C6_Step ==
    ( OneEvent /\ MergeCase )
    => LET last == logs[Len(logs)].text
           frag == LastEvent.text
           sep == IF Len(last) > 0 /\ last[Len(last)] # " " /\ frag[1] # " "
                  THEN << " " >> ELSE << >>
       IN logs'[Len(logs)].text = last \o sep \o frag

C6_SeparatorRule == [][C6_Step]_vars

\* a space was inserted after a tab, and before a newline
C6_Witness ==
    /\ Len(logs) = 1
    /\ logs[1].text = okTab \o << " " >> \o nlGo

\* the events grouped as the log groups them: a run of events of one role,
\* other than system, is one group
RECURSIVE Groups(_)
Groups(evs) ==
    IF evs = << >> THEN << >>
    ELSE LET g == Groups(SubSeq(evs, 1, Len(evs) - 1))
             e == evs[Len(evs)]
         IN IF Len(g) > 0 /\ g[Len(g)].role = e.role /\ e.role # "system"
            THEN [ g EXCEPT ![Len(g)].frags = Append(@, e.text) ]
            ELSE Append(g, [ role |-> e.role, frags |-> << e.text >> ])

\* text is the fragments in order, each join holding either nothing or one
\* space that has no space on either side of it
RECURSIVE JoinOK(_, _)
JoinOK(text, frags) ==
    IF Len(frags) = 1 THEN text = frags[1]
    ELSE LET f == frags[Len(frags)]
             rest == SubSeq(frags, 1, Len(frags) - 1)
             k == Len(text) - Len(f)
         IN /\ k >= 0
            /\ SubSeq(text, k + 1, Len(text)) = f
            /\ \/ JoinOK(SubSeq(text, 1, k), rest)
               \/ /\ k >= 2
                  /\ text[k] = " "
                  /\ text[k - 1] # " "
                  /\ f[1] # " "
                  /\ JoinOK(SubSeq(text, 1, k - 1), rest)

\* C7: the text of every message holds every character of every fragment of
\* its run, in arrival order, and a space the merge inserted never stands next
\* to a space of a fragment; (user,"Hi "), (user,"there") give "Hi there".
C7_NoDropNoDouble ==
    LET g == Groups(events) IN
    /\ Len(logs) = Len(g)
    /\ \A i \in 1..Len(logs) : JoinOK(logs[i].text, g[i].frags)
    /\ events = << [ role |-> "user", text |-> HiSp ], [ role |-> "user", text |-> there ] >>
         => RoleText(logs) = << [ role |-> "user",
                                  text |-> << "H", "i", " ", "t", "h", "e", "r", "e" >> ] >>

C7_Witness ==
    /\ events = << [ role |-> "user", text |-> HiSp ], [ role |-> "user", text |-> there ] >>
    /\ Len(logs) = 1

\* C8: every system event appends a message of its own, whatever the last
\* message is, and no event is merged into a system message: the system
\* messages of the log are exactly the system events, one message each, in
\* order, and an event that is a system event or follows a system message
\* appends a new message.
C8_Projection ==
    LET sl == SelectSeq(logs, LAMBDA l : l.role = "system")
        se == SelectSeq(events, LAMBDA e : e.role = "system")
    IN /\ Len(sl) = Len(se)
       /\ \A i \in 1..Len(sl) : sl[i].text = se[i].text

C8_Step ==
    ( /\ OneEvent
      /\ \/ LastEvent.role = "system"
         \/ ( Len(logs) > 0 /\ logs[Len(logs)].role = "system" ) )
    => /\ Len(logs') = Len(logs) + 1
       /\ \A i \in 1..Len(logs) : logs'[i] = logs[i]
       /\ logs'[Len(logs')].role = LastEvent.role
       /\ logs'[Len(logs')].text = LastEvent.text

C8_SystemNeverMerges == [](C8_Projection) /\ [][C8_Step]_vars

C8_Witness ==
    /\ Len(events) = 3
    /\ events[1] = [ role |-> "system", text |-> TxtA ]
    /\ events[2] = [ role |-> "system", text |-> TxtB ]
    /\ events[3].role = "user"
    /\ Len(logs) = 3

-----------------------------------------------------------------------------
(* Claims about the final transcript and the order of the log *)

RoleName(role) ==
    IF role = "user" THEN << "U", "S", "E", "R" >> ELSE << "M", "O", "D", "E", "L" >>

\* the transcript of a log: one line "<ROLE>: <text>" for every message that
\* is not a system message, in the order of the log, newlines between lines
RECURSIVE TranscriptOf(_)
TranscriptOf(ls) ==
    IF ls = << >> THEN << >>
    ELSE LET rest == TranscriptOf(Tail(ls))
             h == Head(ls)
         IN IF h.role = "system" THEN rest
            ELSE RoleName(h.role) \o << ":", " " >> \o h.text
                 \o (IF rest = << >> THEN << >> ELSE << "\n" >> \o rest)

\* C9: a finish request hands the host one string: the log as it stands when
\* the string is built, without the system entries, each message rendered
\* "<ROLE>: <text>", the lines joined by newlines in the order of the log.
C9_Step ==
    completed' # completed
    => /\ Len(completed') = Len(completed) + 1
       /\ SubSeq(completed', 1, Len(completed)) = completed
       /\ completed'[Len(completed')] = TranscriptOf(logs')

\* one string for each finish request that has run to its end
C9_OneEach ==
    Len(completed) = Cardinality({ c \in FinishCalls : pcTd[c] = "done" })

C10_ArrivalOrder ==
    LET g == Groups(events) IN
    /\ Len(logs) = Len(g)
    /\ \A i \in 1..Len(logs) :
        /\ logs[i].role = g[i].role
        /\ Len(logs[i].text) >= Len(g[i].frags[1])
        /\ SubSeq(logs[i].text, 1, Len(g[i].frags[1])) = g[i].frags[1]
    /\ \A i \in 1..(Len(logs) - 1) : logs[i].timestamp <= logs[i + 1].timestamp

\* one message of the Transport carried both transcriptions
C10_Witness ==
    /\ Len(logs) = 4
    /\ logs[3].role = "model" /\ logs[4].role = "user"
    /\ logs[3].timestamp = logs[4].timestamp
    /\ logs[3].timestamp > logs[2].timestamp

-----------------------------------------------------------------------------
(* Claims about the session status *)

\* no Transport object, device or remote session exists
NothingStarted ==
    /\ ~liveService /\ sessionPromise = "null" /\ session = "none"
    /\ audioStream = "none" /\ processor = "none"
    /\ audioCtx = "none" /\ ~audioCtxRef

\* C11: start() with no credential takes the status from idle to error in one
\* step, never showing connecting, records exactly one system log entry, and
\* constructs no service and requests no device.
C11_Step ==
    ( ~apiKey /\ pcStart = "idle" /\ pcStart' # "idle" )
    => /\ status = "idle" /\ status' = "error"
       /\ logs' = Append(logs, [ role |-> "system", text |-> ApiKeyMissing,
                                 timestamp |-> time ])
       /\ NothingStarted'

C11_Always ==
    ~apiKey => /\ status # "connecting" /\ status # "connected"
               /\ NothingStarted
               /\ Len(logs) = (IF pcStart = "idle" THEN 0 ELSE 1)

C11_NoCredential == [](C11_Always) /\ [][C11_Step]_vars

C11_Witness ==
    /\ ~apiKey /\ status = "error"
    /\ Len(logs) = 1 /\ logs[1].role = "system" /\ logs[1].text = ApiKeyMissing

\* the transitions of the status the state machine allows, a failure being
\* possible from every state before the end
StatusEdges ==
    { << "idle", "connecting" >>, << "idle", "error" >>,
      << "connecting", "connected" >>, << "connecting", "error" >>,
      << "connected", "error" >>, << "connected", "finished" >> }

C12_EdgeStep == status' # status => << status, status' >> \in StatusEdges

C12_TerminalStep == status \in { "error", "finished" } => status' = status

\* C12: the status starts at idle, changes only along idle -> connecting ->
\* connected -> {error | finished}, and once it is error or finished it never
\* changes again, under every interleaving of start, finish, the Transport
\* callbacks and the pending continuations of start.
C12_StatusMachine == status = "idle" /\ [][C12_EdgeStep /\ C12_TerminalStep]_vars

\* the step in which the Transport reports a failure of the open channel
TransportFails == session = "open" /\ session' = "failed"

\* the step in which the channel closes without having failed
TransportClosesNormally == session \in { "open", "closing" } /\ session' = "closed"

\* the step in which a finish request of the user reaches its end
UserEndCompletes == completed' # completed

C13_ErrorStep ==
    ( TransportFails /\ status = "connected" /\ mounted ) => status' = "error"

C13_FinishedStep ==
    ( status' = "finished" /\ status # "finished" )
    => ( TransportClosesNormally \/ UserEndCompletes )

\* C13: a Transport error while the session is connected moves the status to
\* error; only a normal closure of the Transport or an explicit end by the
\* user moves it to finished.
C13_TransportError == [][C13_ErrorStep /\ C13_FinishedStep]_vars

\* the texts of the system entries that describe a failure
FailureTexts == { ApiKeyMissing, ErrorMsg }

FailureEntries(lg) ==
    SelectSeq(lg, LAMBDA l : l.role = "system" /\ l.text \in FailureTexts)

\* the status becomes error in this step, and the log that the call of
\* setStatus('error') found holds the one entry describing the failure
C14_Step ==
    ( status' = "error" /\ status # "error" )
    => /\ Len(logsAtError') = Len(logsAtError) + 1
       /\ Len(FailureEntries(logsAtError'[Len(logsAtError')])) = 1
       /\ Len(FailureEntries(logs')) = 1

\* C14: every transition of the status into error is preceded by exactly one
\* system log entry describing the failure: when the status is set to error
\* the entry is already in the log.
C14_LogBeforeError == [][C14_Step]_vars

\* no teardown has been requested
NoTeardown == \A c \in TdCallers : pcTd[c] = "idle"

\* as stated: connected implies an open session and a held stream
C15_Original == status = "connected" => ( session = "open" /\ audioStream = "live" )

\* the status becomes connected in the continuation of start that runs when
\* the connect promise resolves, the stream having been acquired before
C15_Step ==
    ( status' = "connected" /\ status # "connected" )
    => /\ pcStart = "awaitConnect" /\ pcStart' = "done"
       /\ sessionPromise = "pending" /\ sessionPromise' # "rejected"
       /\ session = "none" /\ session' \in { "open", "closing" }
       /\ audioStream = "live"

C15_Always ==
    ( status = "connected" /\ NoTeardown )
    => ( session = "open" /\ audioStream = "live" /\ processor = "connected" )

\* C15: in voice mode the status becomes connected only when the connect
\* promise has resolved, after the capture device was acquired; while no
\* teardown has been requested, connected implies that the session is open
\* and the stream held. A teardown requested by the user closes the session
\* and stops the tracks while the status still reads connected.
C15_ConnectedAfterOpen == [](C15_Always) /\ [][C15_Step]_vars

C15_Witness ==
    /\ status = "connected" /\ NoTeardown
    /\ session = "open" /\ audioStream = "live" /\ sessionPromise = "resolved"

-----------------------------------------------------------------------------
(* Claims about the capture callback *)

\* a capture callback passes a chunk to the Transport in this step
ChunkSent == sentChunks' = sentChunks + 1

\* C16: a capture callback sends a chunk only when, at the time of the
\* callback, the mute flag is clear and the status is connected; with the
\* flag set (also when the user set it after the session connected) or any
\* other status the frame is dropped.
C16_MuteAndStatus == [][ChunkSent => ( ~isMuted /\ status = "connected" )]_vars

-----------------------------------------------------------------------------
(* Claims about teardown *)

\* the four resources of the session are released
TornDown ==
    /\ session # "open"
    /\ processor # "connected"
    /\ audioStream # "live"
    /\ audioCtx # "running"

\* C17: teardown runs on every way the session ends: from every state whose
\* status is finished or error the session comes to a state where the
\* Transport session is closed, the capture callback disconnected, the input
\* tracks stopped and the output device closed.
C17_TeardownOnEnd == ( status \in { "finished", "error" } ) ~> TornDown

\* the steps that ran in this step of the session, and those that acted
NewEntries == SubSeq(tdLog', Len(tdLog) + 1, Len(tdLog'))
Did(step) ==
    \E i \in 1..Len(NewEntries) :
        NewEntries[i].step = step /\ NewEntries[i].result = "done"

\* the history of steps agrees with what happens to the resources
EffectsLogged ==
    /\ ( session = "open" /\ session' = "closing" ) => Did("session")
    /\ Did("session") => ( sessionPromise' = "null" /\ session' # "open" )
    /\ ( processor # "disconnected" /\ processor' = "disconnected" ) <=> Did("processor")
    /\ ( audioStream = "live" /\ audioStream' = "stopped" ) <=> Did("tracks")
    /\ Did("device") => ( audioCtx = "running" /\ audioCtxRef )
    /\ ( audioCtx = "running" /\ audioCtx' = "closed" )
         => \E i \in 1..Len(tdLog) : tdLog[i].step = "device" /\ tdLog[i].result = "done"
    /\ ( \E h \in 1..Len(scheduled) : scheduled'[h].stopped /\ ~scheduled[h].stopped )
         <=> Did("sources")
    /\ Did("sources") => bufferSources' = {}

\* the order of the steps as the claim gives it
C18_Order == << "session", "processor", "tracks", "device", "sources" >>

StepsOf(c) ==
    LET es == SelectSeq(tdLog, LAMBDA e : e.c = c)
    IN [ i \in 1..Len(es) |-> es[i].step ]

C18_InOrder ==
    \A c \in TdCallers :
        /\ Len(StepsOf(c)) <= Len(C18_Order)
        /\ StepsOf(c) = SubSeq(C18_Order, 1, Len(StepsOf(c)))

\* C18: every teardown runs its steps in the order (1) Transport session,
\* (2) capture processor, (3) input tracks, (4) output device, (5) playback
\* handles: the steps an invocation has run so far are always the first ones
\* of that list, so no step starts before the ones ahead of it were attempted.
C18_FixedOrder == [](C18_InOrder) /\ [][EffectsLogged]_vars

\* a teardown in which every one of the five steps had something to do
C18_Witness ==
    /\ Len(tdLog) = 5
    /\ \A i \in 1..5 : tdLog[i] = tdEntry("finish1", C18_Order[i], "done")
    /\ \E h \in 1..Len(scheduled) : scheduled[h].stopped

\* invocation c of the teardown starts in this step, after another has ended
Starts(c) == pcTd[c] = "idle" /\ pcTd'[c] # "idle"
Ended(c) == pcTd[c] \in { "done", "failed" }
EndedDone(c) == pcTd[c] = "done"

C19_Step ==
    \A c \in TdCallers :
        ( Starts(c) /\ \E d \in TdCallers \ { c } : Ended(d) )
        => /\ pcTd'[c] \in { "done", "failed" }
           /\ \A i \in 1..Len(NewEntries) : NewEntries[i].result # "done"
           /\ UNCHANGED << session, sessionPromise, liveService, processor,
                           audioStream, audioCtx, audioCtxRef, playVars,
                           logVars, sentChunks >>
           /\ ( \E d \in TdCallers \ { c } : EndedDone(d) )
                => /\ pcTd'[c] = "done"
                   /\ Len(NewEntries) = 5
                   /\ \A i \in 1..5 : NewEntries[i] = tdEntry(c, C18_Order[i], "skipped")

C20_StepsGuarded ==
    \A c \in TdCallers :
        /\ pcTd[c] # "failed"
        /\ Ended(c) => Len(StepsOf(c)) = Len(C18_Order)

-----------------------------------------------------------------------------
(* Claims about a finish request *)

\* the finish request of the user has run to its end: the status is finished
\* and the host has the transcript
FinishHonored ==
    /\ pcTd["finish1"] = "done"
    /\ Len(completed) > 0
    /\ Len(StepsOf("finish1")) = Len(C18_Order)

\* C21: a finish request is honored in every state, also while connect is
\* pending or after a failed connect: once it is made, the full teardown
\* runs, the status becomes finished and the transcript is handed to the host.
C21_FinishHonored == ( pcTd["finish1"] # "idle" ) ~> FinishHonored

-----------------------------------------------------------------------------
(* Claims about fragments and playback handles *)

\* a fragment is handed to onAudioData in this step
FragmentArrives == arrived' = arrived + 1

\* the output device has been closed, discarded or never created
OutputTornDown == audioCtx # "running" \/ ~audioCtxRef

\* C22: a fragment that arrives when the output device has been closed or
\* discarded is dropped: no handle is created or added to the live set, the
\* playback clock is unchanged, and the status and the log do not change
\* because of it.
C22_Step ==
    ( FragmentArrives /\ OutputTornDown )
    => /\ UNCHANGED << scheduled, bufferSources, nextStartTime >>
       /\ UNCHANGED << status, logsAtError, pcTd >>
       /\ Len(FailureEntries(logs')) = Len(FailureEntries(logs))

C22_LateFragmentDropped == [][C22_Step]_vars

\* a fragment arrived after the teardown had closed the output device
C22_Witness ==
    /\ arrived = 1 /\ scheduled = << >>
    /\ audioCtx = "closed" /\ ~audioCtxRef
    /\ pcTd["finish1"] = "done"

\* a handle is in the live set exactly while it has neither ended nor been
\* stopped by a teardown
C23_LiveSet ==
    /\ bufferSources \subseteq 1..Len(scheduled)
    /\ \A h \in 1..Len(scheduled) :
         h \in bufferSources <=> ( ~scheduled[h].ended /\ ~scheduled[h].stopped )
    /\ ( \E c \in TdCallers : pcTd[c] = "done" ) => bufferSources = {}

\* a handle enters the set in the step that creates it; the ended signal of a
\* handle that a teardown stopped changes nothing else
C23_Step ==
    /\ \A h \in 1..Len(scheduled') :
         h > Len(scheduled) => h \in bufferSources'
    /\ \A h \in 1..Len(scheduled) :
         ( scheduled[h].stopped /\ ~scheduled[h].ended /\ scheduled'[h].ended )
         => UNCHANGED << bufferSources, nextStartTime, status, pcTd >>

\* C23: the handle of every scheduled fragment is in the live set from its
\* creation until its ended signal fires or a teardown stops it, and at no
\* other time; once a teardown has completed the set is empty and stays
\* empty, whatever the interleaving of arrivals, ended signals and teardown.
C23_Handles == [](C23_LiveSet) /\ [][C23_Step]_vars

\* one handle ended by itself, another was stopped by the teardown and then
\* signalled its end, and a fragment arrived after the teardown
C23_Witness ==
    /\ pcTd["finish1"] = "done" /\ bufferSources = {}
    /\ Len(scheduled) = 2 /\ arrived = 3
    /\ scheduled[1].ended /\ ~scheduled[1].stopped
    /\ scheduled[2].stopped /\ scheduled[2].ended

-----------------------------------------------------------------------------
(* Claims about late callbacks and sends *)

\* a transcript fragment of the Transport is handed to onTranscript in this step
TranscriptArrives == TransportEvents' > TransportEvents

\* the end of the session has been requested or reached
EndRequested ==
    \/ \E c \in TdCallers : pcTd[c] # "idle"
    \/ status \in { "finished", "error" }

\* C24: a transcript fragment that arrives after a disconnect has been
\* requested, or when the status is finished or error, does not modify the
\* log: the callback checks the status or a closed flag before acting.
C24_LateTranscriptIgnored ==
    [][( TranscriptArrives /\ EndRequested ) => logs' = logs]_vars

\* an outbound send fails in this step
SendFails == failedSends' > failedSends

\* the session accepts a typed message, or an audio chunk of the microphone
AcceptsText == mounted /\ status = "connected" /\ chatService
AcceptsAudio ==
    /\ processor = "connected" /\ ~capMuted /\ statusRef = "connected"
    /\ liveService /\ sessionPromise # "null"

C25_Step ==
    SendFails =>
       /\ status' = status
       /\ logs' = logs /\ logsRef' = logsRef
       /\ AcceptsText' = AcceptsText
       /\ AcceptsAudio' = AcceptsAudio

\* C25: a failed outbound send (an audio chunk or a text message) is
\* recoverable: it leaves the status unchanged, adds or changes no log
\* message, and the session accepts later sends as it did before.
C25_SendFailureRecoverable == [][C25_Step]_vars

\* of two typed messages one failed to deliver and the other was answered
C25_Witness ==
    /\ failedSends = 1 /\ pendingSends = 0 /\ status = "connected"
    /\ events = << [ role |-> "user", text |-> Hi ],
                   [ role |-> "user", text |-> Hi ],
                   [ role |-> "model", text |-> Hi ] >>

-----------------------------------------------------------------------------
(* Claims about the resources of one session instance *)

\* the sets of voice resources this instance has created: startVoiceSession
\* logs its connecting message right after it has created the service and
\* the output device
ResourceSets ==
    Len(SelectSeq(events,
          LAMBDA e : e = [ role |-> "system", text |-> ConnectingMsg ]))

\* a start request creates resources in this step
StartCreates == ResourceSets' > ResourceSets

\* no resource is live and none is being acquired
NoneLiveOrAcquired == NothingStarted /\ pcStart = "idle"

\* C26: at most one capture pipeline and one playback scheduler (one
\* Transport session, one input stream, one output device) is active per
\* session instance at any time: a second start request never creates a
\* second set of resources while the first is live or being acquired.
C26_OneResourceSet ==
    /\ [](ResourceSets <= 1)
    /\ []( ~NoneLiveOrAcquired => ~( mounted /\ StartOffered ) )
    /\ [][StartCreates => NoneLiveOrAcquired]_vars

\* the one set of resources is live and the start button is gone
C26_Witness ==
    /\ ResourceSets = 1 /\ ~StartOffered /\ mounted
    /\ status = "connected" /\ audioStream = "live"
    /\ processor = "connected" /\ audioCtx = "running" /\ session = "open"

-----------------------------------------------------------------------------
(* Claims about the shape of the log *)

IsPrefix(p, t) == Len(p) <= Len(t) /\ SubSeq(t, 1, Len(p)) = p

\* this step replaces the last message instead of appending one
MergeStep == logs' # logs /\ Len(logs') = Len(logs)

C27_Step ==
    /\ Len(logs') >= Len(logs) /\ Len(logs') <= Len(logs) + 1
    /\ \A i \in 1..(Len(logs) - 1) : logs'[i] = logs[i]
    /\ Len(logs') = Len(logs) + 1 =>
          \A i \in 1..Len(logs) : logs'[i] = logs[i]
    /\ MergeStep =>
          /\ Len(events') = Len(events) + 1
          /\ logs'[Len(logs)].role = logs[Len(logs)].role
          /\ logs'[Len(logs)].timestamp = logs[Len(logs)].timestamp
          /\ IsPrefix(logs[Len(logs)].text, logs'[Len(logs)].text)

\* C27: the log is append-only except for the replacement of its last element
\* on a merge: every log event leaves all messages but the last unchanged and
\* never shortens the sequence, and a merge keeps the role and the timestamp
\* of the last message and keeps its previous text as a prefix of the new text.
C27_AppendOnly == [][C27_Step]_vars

\* a message was appended behind another one and later, at a later time,
\* merged with a fragment
C27_Witness ==
    /\ Len(logs) = 2 /\ Len(events) = 3
    /\ logs[2].text = events[2].text \o events[3].text
    /\ logs[2].timestamp < time

-----------------------------------------------------------------------------
(* Claims about the codec *)

\* C28: encoding round trip: for every raw byte sequence b, the empty
\* sequence included, decoding the encoding of b gives b byte for byte.
C28_RoundTrip ==
    /\ "decodeThrew" \notin codecDone
    /\ "decode" \in codecDone => decodedBytes = rawBytes

\* a buffer that ends in the middle of a group of three bytes, with bytes
\* above 127, was encoded and decoded
C28_Witness ==
    /\ "decode" \in codecDone
    /\ rawBytes = << 255, 128, 0, 254 >>
    /\ base64Data = << "/", "4", "A", "A", "/", "g", "=", "=" >>

\* the empty buffer was encoded and decoded
C28_WitnessEmpty ==
    /\ "decode" \in codecDone /\ rawBytes = << >> /\ base64Data = << >>

\* the conversion of the samples has run
Converted == "pcm" \in codecDone /\ Len(pcmInt16) = Len(inputData)

C29_Sample(s, out) ==
    /\ s = SampleDen => out = 32767
    /\ s = 0 - SampleDen => out = 0 - 32768
    /\ s = 0 => out = 0
    /\ s > SampleDen => out = 32767
    /\ s < 0 - SampleDen => out = 0 - 32768
    /\ out >= 0 - 32768 /\ out <= 32767
    /\ s >= 0 => out >= 0
    /\ s <= 0 => out <= 0

\* C29: the conversion maps the sample 1.0 to 32767, -1.0 to -32768 and 0.0
\* to 0, and clips before scaling: every sample above 1.0 gives 32767 and
\* every sample below -1.0 gives -32768, so every output lies in
\* -32768..32767 and none wraps around (the output has the sign of the sample).
C29_Endpoints ==
    Converted =>
       \A i \in 1..Len(inputData) : C29_Sample(inputData[i], pcmInt16[i])

\* the sample 2.0 was converted
C29_Witness ==
    /\ Converted
    /\ inputData = << 2 * SampleDen >> /\ pcmInt16 = << 32767 >>

\* Math.round of num / SampleDen
RoundNearest(num) == ( 2 * num + SampleDen ) \div ( 2 * SampleDen )

\* C30: for every sample s in the range, the conversion gives the scaled
\* value rounded to the nearest integer: round(s * 32768) for s < 0 and
\* round(s * 32767) for s >= 0; s = 0.5 gives round(16383.5), not 16383.
C30_RoundsToNearest ==
    Converted =>
       \A i \in 1..Len(inputData) :
          ( inputData[i] >= 0 - SampleDen /\ inputData[i] <= SampleDen )
          => pcmInt16[i] = RoundNearest(scale(inputData[i]))

-----------------------------------------------------------------------------
(* Further claims about the log, the teardown and the sends *)

\* the roles of the events with every run of one speaker reduced to one entry
\* (system events are kept one by one)
RECURSIVE Collapsed(_)
Collapsed(evs) ==
    IF Len(evs) = 0 THEN << >>
    ELSE LET n == Len(evs)
             front == Collapsed(SubSeq(evs, 1, n - 1))
         IN IF /\ n > 1 /\ evs[n].role = evs[n - 1].role
               /\ evs[n].role # "system"
            THEN front
            ELSE Append(front, evs[n].role)

\* C31: in every reachable state of the log two adjacent messages never have
\* the same role unless that role is system: after any sequence of user,
\* model and system events, consecutive fragments of one speaker are
\* collapsed into a single message.
C31_NoAdjacentSameRole ==
    /\ \A i \in 1..(Len(logs) - 1) :
          logs[i].role = logs[i + 1].role => logs[i].role = "system"
    /\ [ i \in 1..Len(logs) |-> logs[i].role ] = Collapsed(events)

\* two fragments of the user were collapsed and the model spoke after them
C31_Witness ==
    /\ Len(events) = 3 /\ Len(logs) = 2
    /\ events[1].role = "user" /\ events[2].role = "user"
    /\ events[3].role = "model"
    /\ logs[1].role = "user" /\ logs[2].role = "model"

\* start is suspended on getUserMedia or on the opening of the Transport
StartSuspended == pcStart \in { "awaitMedia", "awaitConnect" }

\* the continuation of start runs to its end in this step, after a teardown
\* that completed while start was suspended
ContinuesAfterTeardown ==
    /\ StartSuspended /\ pcStart' = "done"
    /\ \E c \in TdCallers : pcTd[c] = "done"

\* C32: if a teardown (finish or unmount) completes while start is suspended
\* on the acquisition of the input device or on the opening of the Transport,
\* then after the continuation of start has run no resource remains live: the
\* stream acquired afterwards is not held, the session opened afterwards is
\* not left open, no capture callback is installed and no chunk is sent.
C32_NothingLiveAfterEarlyTeardown ==
    [][ContinuesAfterTeardown =>
          /\ audioStream' # "live"
          /\ session' # "open"
          /\ processor' # "connected"
          /\ sentChunks' = 0]_vars

\* C33: the final transcript is handed to the host (onComplete) at most once
\* per session instance, also when finish is requested a second time while
\* the first request is awaiting the teardown.
C33_CompleteOnce == Len(completed) <= 1

\* the teardown steps of that kind that acted
StepsDone(step) ==
    Len(SelectSeq(tdLog, LAMBDA e : e.step = step /\ e.result = "done"))

C34_SessionOnce == StepsDone("session") <= 1
C34_DeviceOnce == StepsDone("device") <= 1

\* C34: under any interleaving of teardown invocations (two finish requests,
\* or finish overlapping the unmount cleanup) the remote session is closed at
\* most once and the output device is asked to close at most once.
C34_CloseOnce == C34_SessionOnce /\ C34_DeviceOnce

\* a chunk is passed to sendAudioChunk in this step while the service has no
\* session promise: before connect was called or after disconnect completed
PassedWithoutSession == Len(passed') > Len(passed) /\ sessionPromise = "null"

C35_InOrder ==
    \A i, j \in 1..Len(received) : i < j => received[i] < received[j]

C35_NeverSent ==
    \A id \in 1..Len(passed) :
        passed[id] = "null" =>
           /\ \A i \in 1..Len(received) : received[i] # id
           /\ \A i \in 1..Len(reactions) : reactions[i].id # id

C35_Step ==
    PassedWithoutSession =>
       UNCHANGED << received, reactions, failedSends, session, sessionPromise,
                    status, logs >>

\* C35: outbound audio chunks reach the remote session in the order in which
\* the capture callbacks produced them, and a chunk passed to sendAudioChunk
\* before connect was called or after disconnect has completed is dropped
\* silently and never sent.
C35_OrderedOrDropped ==
    /\ [](C35_InOrder /\ C35_NeverSent)
    /\ [][C35_Step]_vars

\* one chunk was passed before connect, one while the promise was pending,
\* one to the open session and one after disconnect: the second and third
\* arrived, in that order
C35_Witness ==
    /\ passed = << "null", "pending", "resolved", "null" >>
    /\ received = << 2, 3 >>
    /\ sessionPromise = "null" /\ session = "closing"

=============================================================================
